---- MODULE Spec2Model ----
(***************************************************************************)
(* The seed-phrase scanner of src/index.js.                                *)
(*                                                                         *)
(* src/index.js holds three successive variants of the server:             *)
(*   variant 1  lines   1-506   (isChecking loop, strength from a ternary) *)
(*   variant 2  lines 508-806   (setInterval tick, no stop flag)           *)
(*   variant 3  lines 807-1257  (isChecking loop, length switch)           *)
(* The variable `variant` says which of them is the running server; it is  *)
(* chosen in Init and never changes.                                       *)
(*                                                                         *)
(* Node runs every handler, timer callback and async function to its next  *)
(* real suspension (an awaited network call, key-stretching call or timer) *)
(* without interleaving, so one action is one such run.  An `await` of a   *)
(* promise that is already resolved resumes in a microtask, before any     *)
(* other handler or timer, and is therefore not a suspension point.        *)
(***************************************************************************)
EXTENDS Integers, Sequences, FiniteSets, TLC

VARIABLES
    variant,        \* which variant of index.js runs
    isChecking,     \* let isChecking (variants 1, 3)
    isPaused,       \* let isPaused
    checkingInterval, \* let checkingInterval (variant 2): TRUE when a timer is set
    loops,          \* the runChecks invocations (variant 2: the tick callbacks) in flight
    exchangeRateCache, \* const exchangeRateCache = {}: currency -> rate, 0 when absent
    out,            \* what the last step sent: the HTTP response, events, found.log lines
    rPc,            \* one getBalance call: where it is suspended
    rCurrency,      \* its `currency`
    rOrder,         \* the providers it iterates, in the order it tries them
    rPlan,          \* environment: what each provider of rOrder answers when asked
    rTokenBal,      \* environment: the USDT balance the token contract holds for the address
    rIdx,           \* the index in rOrder of the provider being tried
    rBalance,       \* `balance` of the provider being tried
    rLog,           \* history: the attempts and backoff sleeps of the call
    rResult,        \* what the call returned
    rEffects,       \* what the call itself broadcast and appended to found.log
    uPc,            \* updateAllExchangeRates: "boot" before startServer calls it,
                    \* "fetch" while it awaits the price request, "listening" after
    uResp,          \* history: what the price request answered
    cPc,            \* the /check-balance handler: "idle", "balance" (awaiting
                    \* getBalance), "tron" (awaiting the TRC20 call), "rate"
                    \* (awaiting the rate request), "done"
    cCurrency,      \* req.body.currency
    cReply,         \* what the handler answered
    clients,        \* let clients = []: the responses of the open /events requests
    conn,           \* each /events request: "new" (not made), "open", "closed"
    inbox,          \* what has been written to each /events response
    sent,           \* history: how many times broadcast() has been called
    joinedAt,       \* history: `sent` when the request was made
    leftAt,         \* history: `sent` when its connection closed
    dSeed,          \* the mnemonic (and its seed) given to the derivations
    dSeen,          \* history: per chain, what the derivations returned and
                    \* whether the scan was paused when they ran
    pPc,            \* a balance on its way from a provider: "idle", "wire", "decoded"
    pSite,          \* the place in the code that decodes it
    pAmount,        \* the amount the provider supplies
    pOut,           \* the balance the code holds and reports for it
    eventSource,    \* the browser client's `let eventSource`: 0 for undefined,
                    \* else the number of the EventSource object it holds
    esOpen,         \* the EventSource objects that are not closed
    esCount,        \* how many EventSource objects the page has created
    esShown,        \* how many messages the page has handled
    esLast          \* history: the page's last click or stream error

scanVars == <<isChecking, isPaused, checkingInterval, loops, exchangeRateCache, out>>

resVars == <<rPc, rCurrency, rOrder, rPlan, rTokenBal, rIdx, rBalance, rLog, rResult, rEffects>>

refVars == <<uPc, uResp>>

chkVars == <<cPc, cCurrency, cReply>>

\* What the scan handlers and loops leave alone, what getBalance does, and
\* what updateAllExchangeRates does.
subVars == <<clients, conn, inbox, sent, joinedAt, leftAt>>

derVars == <<dSeed, dSeen>>

decVars == <<pPc, pSite, pAmount, pOut>>

cliVars == <<eventSource, esOpen, esCount, esShown, esLast>>

notScan == <<resVars, refVars, chkVars, subVars, derVars, decVars, cliVars>>

notResolve == <<refVars, chkVars, subVars, derVars, decVars, cliVars>>

notRefresh == <<resVars, chkVars, subVars, derVars, decVars, cliVars>>

notCheck == <<refVars, subVars, derVars, decVars, cliVars>>

notEvents == <<resVars, refVars, chkVars, derVars, decVars, cliVars>>

notDerive == <<resVars, refVars, chkVars, subVars, decVars, cliVars>>

notDecode == <<resVars, refVars, chkVars, subVars, derVars, cliVars>>

notClient == <<resVars, refVars, chkVars, subVars, derVars, decVars>>

\* Bound: how many runChecks invocations / tick callbacks may be in flight at once.
MaxLoops == 2

\* Bound: the same for variant 1, whose invocations also share the rate cache.
MaxLoops1 == 1

\* The balances the scan loop tells apart: it only tests `> 0`; 1 stands for
\* any positive balance.
ScanBalances == {0, 1}

Variants == {1, 2, 3}

\* The `length` of a POST /start body.  The clients send the value of a
\* <select>, a decimal string; 15 stands for any string that is none of
\* '12', '18', '24'.
Lengths == {12, 15, 18, 24}

ValidLengths == {12, 18, 24}

LoopIds == 1..(IF MaxLoops > MaxLoops1 THEN MaxLoops ELSE MaxLoops1)

\* The slots variant v may use.
Slots(v) == IF v = 1 THEN 1..MaxLoops1 ELSE 1..MaxLoops

\* const currenciesToCheck (variants 1, 3); for (const currency in networks) (variant 2)
currenciesToCheck(v) ==
    IF v = 2 THEN <<"bitcoin", "ethereum", "litecoin", "dogecoin">>
             ELSE <<"bitcoin", "ethereum", "solana", "ton">>

NChains(v) == Len(currenciesToCheck(v))

\* bip39.generateMnemonic(strength): strength bits of entropy plus strength/32
\* checksum bits, cut into 11-bit words.
WordCount(strength) == (strength + strength \div 32) \div 11

\* switch (parseInt(length)) of variant 3; 0 stands for the default branch.
StrengthSwitch(length) ==
    CASE length = 12 -> 128
      [] length = 18 -> 192
      [] length = 24 -> 256
      [] OTHER -> 0

\* const strength = length === '24' ? 256 : length === '18' ? 192 : 128 (variant 1, handler)
StrengthTernary(length) ==
    IF length = 24 THEN 256 ELSE IF length = 18 THEN 192 ELSE 128

\* const strength = length === '24' ? 256 : 128 (variant 1, inside the loop: shadows the handler's)
StrengthInLoop(length) == IF length = 24 THEN 256 ELSE 128

\* The strength a loop passes to bip39.generateMnemonic.
\* Variant 2 calls bip39.generateMnemonic() with the library's default, 128.
GenStrength(v, lp) ==
    CASE v = 1 -> StrengthInLoop(lp.length)
      [] v = 2 -> 128
      [] v = 3 -> lp.strength

\* ------------------------------------------------------------------------
\* The scan loop: runChecks (variants 1, 3) and the setInterval callback
\* (variant 2).
\*
\* A loop record is the closure and position of one invocation:
\*   pc       where it is suspended: "seed" (await bip39.mnemonicToSeed),
\*            "derive" (await mnemonicToWalletKey inside deriveAddress),
\*            "balance" (await getBalance), "rate" (await fetch inside
\*            variant 1's getExchangeRate), "sleep2" (await sleep(2000)),
\*            "sleep1" (await sleep(1000)); "none": no invocation in this
\*            slot; "crashed": the invocation ended by an exception
\*   length   the `length` its start request carried (captured by the closure)
\*   strength the handler's `strength` (captured by the closure)
\*   words    the word count of the mnemonic it generated last
\*   chain    the index in currenciesToCheck of the iteration it is in
\*   bal      variant 1: the balance getBalance returned, kept across "rate"
\*   stopped  history: a stop request was handled while it was in flight
NoLoop ==
    [pc |-> "none", length |-> 0, strength |-> 0, words |-> 0, chain |-> 0,
     bal |-> 0, stopped |-> FALSE]

Crashed == [NoLoop EXCEPT !.pc = "crashed"]

Live(lp) == lp.pc \notin {"none", "crashed"}

LiveLoops == {l \in LoopIds : Live(loops[l])}

FreeSlots == {l \in Slots(variant) : ~Live(loops[l])}

FreeSlot == CHOOSE l \in FreeSlots : \A m \in FreeSlots : l <= m

\* What a library call that derives an address can do: return the address,
\* return a falsy value, or throw.
DeriveOutcomes == {"ok", "falsy", "throw"}

\* Events written by broadcast(), and the step's output.
\* `rate` is the exchange rate behind the message's balanceInUSD, 0 in a
\* message that carries no USD value.
Progress(c) ==
    [type |-> "progress", currency |-> c, token |-> "", balance |-> 0, rate |-> 0]

Found(c, t, b) ==
    [type |-> "found", currency |-> c, token |-> t, balance |-> b, rate |-> 0]

\* The currencies and tokens the rate cache has entries for.
RateKeys == {"bitcoin", "ethereum", "solana", "ton", "usdt"}

\* function getExchangeRate(currency) of variant 3:
\* exchangeRateCache[currency] || 0, an absent entry being 0 in the model.
getExchangeRate(cache, c) ==
    IF c \in DOMAIN cache /\ cache[c] # 0 THEN cache[c] ELSE 0

Output(req, len, status, ev, ap) ==
    [req |-> req, length |-> len, status |-> status, ev |-> ev, ap |-> ap]

NoOutput == Output("none", 0, 0, <<>>, 0)

\* The while (isChecking) test and what follows it up to the first await.
WhileTop(v, lp) ==
    IF ~isChecking THEN NoLoop
    ELSE IF isPaused THEN [lp EXCEPT !.pc = "sleep1", !.chain = 0]
    ELSE [lp EXCEPT !.pc = "seed", !.chain = 0,
                    !.words = WordCount(GenStrength(v, lp))]

\* After the for loop: if (isChecking) await sleep(2000); variant 2's
\* callback returns.
AfterSweep(v, lp) ==
    IF v = 2 THEN NoLoop
    ELSE IF isChecking THEN [lp EXCEPT !.pc = "sleep2", !.chain = 0]
    ELSE WhileTop(v, lp)

\* deriveAddress awaits only in its 'ton' case (mnemonicToWalletKey).
AwaitsDerive(v, i) ==
    /\ i \in 1..NChains(v)
    /\ v # 2
    /\ currenciesToCheck(v)[i] = "ton"

\* The derivations one run of the chain loop from iteration i can reach
\* before it suspends, and what each of them does.
\* A run consults them in order and stops at the first that does not
\* return a falsy value, so the ones after it are fixed to "ok".
DeriveChoices(v, i) ==
    LET dom == {j \in i..NChains(v) : ~AwaitsDerive(v, j)}
    IN  {d \in [dom -> DeriveOutcomes] :
            \A j \in dom : (\E k \in dom : k < j /\ d[k] # "falsy") => d[j] = "ok"}

\* The for loop over the chains from iteration i to its next suspension.
\* d[j] is what the derivation of chain j does if this run reaches it.
RECURSIVE ChainLoop(_, _, _, _)
RECURSIVE Derived(_, _, _, _, _)
ChainLoop(v, lp, i, d) ==
    IF i > NChains(v) THEN [lp |-> AfterSweep(v, lp), ev |-> <<>>]
    ELSE IF v # 2 /\ ~isChecking THEN [lp |-> AfterSweep(v, lp), ev |-> <<>>]
    ELSE IF AwaitsDerive(v, i)
        THEN [lp |-> [lp EXCEPT !.pc = "derive", !.chain = i], ev |-> <<>>]
    ELSE Derived(v, lp, i, d[i], d)

\* The iteration of chain i once its derivation has done `o`.
Derived(v, lp, i, o, d) ==
    CASE o = "throw" -> [lp |-> Crashed, ev |-> <<>>]
      [] o = "falsy" /\ v # 2 -> ChainLoop(v, lp, i + 1, d)
      [] OTHER ->
            [lp |-> [lp EXCEPT !.pc = "balance", !.chain = i],
             ev |-> IF v = 3 THEN <<Progress(currenciesToCheck(v)[i])>> ELSE <<>>]

\* What getBalance(currency, address) returns to the scan loop.
\*   native  the native balance
\*   tokens  the tokens of the returned `tokens` mapping (variant 3), each
\*           with balance tokenBal; variant 1: "usdt" when getBalance itself
\*           reported a USDT balance before returning
\* Variant 3 returns {native} alone when native > 0 and probes tokens (only
\* ethereum defines any) otherwise; variant 1 runs the USDT check for
\* ethereum whatever the native balance; variant 2 returns a number.
ScanResults(v, c) ==
    {r \in [native : ScanBalances, tokens : SUBSET {"usdt"}, tokenBal : ScanBalances] :
        /\ (r.tokens = {}) = (r.tokenBal = 0)
        /\ r.tokens # {} => c = "ethereum" /\ v # 2
        /\ (v = 3 /\ r.tokens # {}) => r.native = 0}

\* fs.appendFileSync after each found event of the list F: the events sent
\* and lines written when the file system accepts (appendOk) or refuses the
\* write.  A refused write throws out of the loop.
FoundAndAppend(F, appendOk) ==
    IF F = <<>> THEN [crashed |-> FALSE, ev |-> <<>>, ap |-> 0]
    ELSE IF appendOk THEN [crashed |-> FALSE, ev |-> F, ap |-> Len(F)]
    ELSE [crashed |-> TRUE, ev |-> <<F[1]>>, ap |-> 0]

\* Variant 3, lines 1164-1196: the found events for a result.
FoundEvents3(c, r) ==
    (IF r.native > 0
        THEN <<[Found(c, "", r.native) EXCEPT
                    !.rate = getExchangeRate(exchangeRateCache, c)]>>
        ELSE <<>>)
    \o (IF "usdt" \in r.tokens
           THEN <<[Found(c, "usdt", r.tokenBal) EXCEPT
                       !.rate = getExchangeRate(exchangeRateCache, "usdt")]>>
           ELSE <<>>)

\* Variant 2, lines 786-790.
FoundEvents2(c, r) ==
    IF r.native > 0 THEN <<Found(c, "", r.native)>> ELSE <<>>

\* Variant 1, lines 407-414: the progress message carries the balance; the
\* found line is only appended.
Report1(c, bal, rate, appendOk) ==
    [crashed |-> bal > 0 /\ ~appendOk,
     ev |-> <<[Progress(c) EXCEPT !.balance = bal, !.rate = rate]>>,
     ap |-> IF bal > 0 /\ appendOk THEN 1 ELSE 0]

\* Variant 1, lines 259-276: getBalance's own USDT report (its append and
\* broadcast sit in a try whose catch only logs).
UsdtReport1(c, r, appendOk) ==
    IF "usdt" \in r.tokens /\ appendOk
        THEN [ev |-> <<Found("usdt", "", r.tokenBal)>>, ap |-> 1]
        ELSE [ev |-> <<>>, ap |-> 0]

\* A step's effect: the loop record, the cache, the events and the lines.
Effect(lp, cache, ev, ap) == [lp |-> lp, cache |-> cache, ev |-> ev, ap |-> ap]

\* The rest of chain lp.chain's iteration after its report `rep`, then the
\* following iterations.
Continue(v, lp, rep, d, pre) ==
    IF rep.crashed
        THEN Effect(Crashed, exchangeRateCache, pre.ev \o rep.ev, pre.ap + rep.ap)
        ELSE LET nxt == ChainLoop(v, lp, lp.chain + 1, d)
             IN  Effect(nxt.lp, exchangeRateCache, pre.ev \o rep.ev \o nxt.ev,
                        pre.ap + rep.ap)

\* Resuming from await bip39.mnemonicToSeed: bip32.fromSeed, then the chains.
ResumeSeed(v, lp, d) ==
    LET nxt == ChainLoop(v, lp, 1, d)
    IN  Effect(nxt.lp, exchangeRateCache, nxt.ev, 0)

\* Resuming from await mnemonicToWalletKey: deriveAddress returns or throws.
ResumeDerive(v, lp, o, d) ==
    LET nxt == Derived(v, lp, lp.chain, o, d)
    IN  Effect(nxt.lp, exchangeRateCache, nxt.ev, 0)

\* Resuming from await getBalance with result r.
ResumeBalance(v, lp, r, appendOk, d) ==
    LET c == currenciesToCheck(v)[lp.chain]
        none == [ev |-> <<>>, ap |-> 0]
    IN  CASE v = 3 -> Continue(v, lp, FoundAndAppend(FoundEvents3(c, r), appendOk), d, none)
          [] v = 2 -> Continue(v, lp, FoundAndAppend(FoundEvents2(c, r), appendOk), d, none)
          [] v = 1 ->
                LET usdt == UsdtReport1(c, r, appendOk)
                IN  IF exchangeRateCache[c] > 0
                        THEN Continue(v, lp, Report1(c, r.native, exchangeRateCache[c], appendOk),
                                      d, usdt)
                        ELSE Effect([lp EXCEPT !.pc = "rate", !.bal = r.native],
                                    exchangeRateCache, usdt.ev, usdt.ap)

\* Variant 1: resuming from the fetch inside getExchangeRate; `rate` is the
\* rate fetched, 0 when the three tries failed.
ResumeRate(v, lp, rate, appendOk, d) ==
    LET c == currenciesToCheck(v)[lp.chain]
        e == Continue(v, [lp EXCEPT !.bal = 0], Report1(c, lp.bal, rate, appendOk), d,
                      [ev |-> <<>>, ap |-> 0])
    IN  [e EXCEPT !.cache = IF rate > 0 THEN [exchangeRateCache EXCEPT ![c] = rate]
                                        ELSE exchangeRateCache]

\* Resuming from a sleep: back to the while test.
ResumeSleep(v, lp) == Effect(WhileTop(v, lp), exchangeRateCache, <<>>, 0)

\* ------------------------------------------------------------------------
\* The balance resolver: getBalance(currency, address), one call at a time.

\* Bound: the length of the provider list a chain is given.
MaxProviders == 3

\* Bound: the largest balance a provider reports.
MaxBalance == 2

Balances == 0..MaxBalance

\* Bound: how far below zero a balance field of a response body can be.
MaxDebt == 1

\* What a balance field of a JSON body can hold.
RawBalances == (0 - MaxDebt)..MaxBalance

\* The keys of apiProviders (variants 1, 3) and of apiConfig (variant 2),
\* and one currency that is no key.
Configured(v) ==
    IF v = 2 THEN {"bitcoin", "ethereum", "litecoin", "dogecoin"}
             ELSE {"bitcoin", "ethereum", "tron", "solana", "ton"}

Unconfigured == "monero"

\* apiProviders[currency][*].name of variants 1 and 3.
ProviderName(c) ==
    CASE c = "ethereum" -> "etherscan"
      [] c = "bitcoin" -> "mempool_space"
      [] c = "tron" -> "trongrid"
      [] c = "solana" -> "solana"
      [] c = "ton" -> "toncenter"

\* apiConfig[currency].providers of variant 2.
apiConfig2(c) ==
    CASE c = "bitcoin" -> <<"blockchair", "blockstream", "cryptoapis", "blockcypher">>
      [] c = "ethereum" -> <<"blockchair", "covalent", "etherscan", "moralis", "bitquery">>
      [] c = "litecoin" -> <<"blockchair", "cryptoapis", "blockcypher">>
      [] c = "dogecoin" -> <<"blockchair", "blockcypher">>

Min(a, b) == IF a < b THEN a ELSE b

\* The provider list of chain c cut to n entries: variant 2 reads apiConfig;
\* variants 1 and 3 read apiProviders[c], whose entries have the chain's
\* provider shape.
ProviderList(v, c, n) ==
    IF v = 2 THEN SubSeq(apiConfig2(c), 1, Min(n, Len(apiConfig2(c))))
             ELSE [i \in 1..n |-> ProviderName(c)]

\* The orders one call may try n providers in: variants 1 and 2 shuffle a
\* copy of the list (Math.random); variant 3 iterates the list as it is.
Shuffles(n) == {f \in [1..n -> 1..n] : \A i, j \in 1..n : f[i] = f[j] => i = j}

\* A provider loop that never shuffles.
ListOrder(v, n) ==
    {[i \in 1..n |-> i]}

Orders(v, n) ==
    IF v = 3 THEN {[i \in 1..n |-> i]} ELSE Shuffles(n)

\* What a provider can answer.  kind:
\*   "throw"      fetch / the client call / response.json() throws
\*   "notOk"      an HTTP status outside 2xx, the body an error object
\*   "statusErr"  an Etherscan body whose status is not '1'
\*   "missing"    a body that parses and has no balance at the response path
\*   "ok"         a body with balance `value` at the response path
\* The Solana and TON clients return the balance or throw.
IsClient(name) == name \in {"solana", "toncenter"}

AllKinds == {"throw", "notOk", "statusErr", "missing", "ok"}

ResponseKinds(name) ==
    IF IsClient(name) THEN {"throw", "ok"}
    ELSE {"throw", "notOk", "missing", "ok"}
         \cup (IF name = "etherscan" THEN {"statusErr"} ELSE {})

\* A response is [kind, value, spent].  For an "ok" body of mempool_space
\* value is chain_stats.funded_txo_sum and spent chain_stats.spent_txo_sum;
\* for the other REST providers value is the field at the response path;
\* for the clients value is the balance the client returns.
Responses(name) ==
    {[kind |-> k, value |-> 0, spent |-> 0] : k \in ResponseKinds(name) \ {"ok"}}
    \cup (CASE name = "mempool_space" ->
                {[kind |-> "ok", value |-> f, spent |-> sp] : f \in Balances, sp \in Balances}
            [] IsClient(name) ->
                {[kind |-> "ok", value |-> b, spent |-> 0] : b \in Balances}
            [] OTHER ->
                {[kind |-> "ok", value |-> b, spent |-> 0] : b \in RawBalances})

\* A chain_stats object that ignores what was spent.
FundedOnly(f, sp) == f

\* balance = BigInt(stats.funded_txo_sum) - BigInt(stats.spent_txo_sum)
ChainStatsBalance(f, sp) == f - sp

\* The balance an "ok" body holds for the provider `name`.
Reported(name, resp) ==
    IF name = "mempool_space" THEN ChainStatsBalance(resp.value, resp.spent)
                              ELSE resp.value

\* Variant 2: the providers whose case dereferences the body without a guard
\* (utxos.reduce, data.data.ethereum, data.data.items).
MissingThrows2(name) == name \in {"blockstream", "bitquery", "covalent"}

\* The try block of one provider up to its `balance`:
\*   "throw"  control leaves for the catch
\*   "null"   variant 1: balance is still null
\*   "value"  balance holds `balance`
Extracted(status, b) == [status |-> status, balance |-> b]

Extract(v, name, resp) ==
    CASE resp.kind = "throw" -> Extracted("throw", 0)
      [] resp.kind = "ok" -> Extracted("value", Reported(name, resp))
      [] resp.kind = "notOk" ->
            IF v # 2 THEN Extracted("throw", 0)
            ELSE IF MissingThrows2(name) THEN Extracted("throw", 0)
            ELSE Extracted("value", 0)
      [] resp.kind = "statusErr" ->
            IF v # 2 THEN Extracted("throw", 0) ELSE Extracted("value", 0)
      [] resp.kind = "missing" ->
            CASE v = 1 -> Extracted("null", 0)
              [] v = 2 -> IF MissingThrows2(name) THEN Extracted("throw", 0)
                                                 ELSE Extracted("value", 0)
              [] v = 3 -> Extracted("value", 0)

\* What getBalance returns: a bare balance (variants 1, 2, and variant 3's
\* `return 0`) or an object {native, tokens}; "throw" when the call throws.
Bare(b) == [shape |-> "bare", native |-> b, tokens |-> {}, tokenBal |-> 0]

Object(b, toks, tb) == [shape |-> "object", native |-> b, tokens |-> toks, tokenBal |-> tb]

Thrown == [shape |-> "throw", native |-> 0, tokens |-> {}, tokenBal |-> 0]

NoResult == [shape |-> "none", native |-> 0, tokens |-> {}, tokenBal |-> 0]

\* The return for an empty or missing provider list.
\* Variant 2 reads apiConfig[currency].providers: a TypeError for a currency
\* that is no key, and `return 0` after an empty loop for an empty list.
NoProviders(v, c) ==
    IF v = 2 /\ c \notin Configured(v) THEN Thrown
                                  ELSE Bare(0)

\* A resolver that raises once the provider list is exhausted.
AllFailedRaises(v) == Thrown

\* The return after the provider loop.
AllFailed(v) == IF v = 3 THEN Object(0, {}, 0) ELSE Bare(0)

\* The return of a provider's balance b (with no token found).
ReturnBalance(v, b) == IF v = 3 THEN Object(b, {}, 0) ELSE Bare(b)

\* Variant 3 after a zero native balance: networks[c].tokens is read
\* (networks has no 'tron': the read throws) and ethereum's token is probed.
\* Variant 1 runs its secondary USDT check for ethereum and tron.
TokenStage(v, c, b) ==
    CASE v = 1 /\ c \in {"ethereum", "tron"} -> "check1"
      [] v # 3 \/ b > 0 -> "return"
      [] c = "tron" -> "throw"
      [] c = "ethereum" -> "probe"
      [] OTHER -> "return"

\* The answers the providers of the list `order` may give to one call.
Plans(order) ==
    {pl \in [1..Len(order) -> UNION {Responses(order[i]) : i \in 1..Len(order)}] :
        \A i \in 1..Len(order) : pl[i] \in Responses(order[i])}

\* What one call has broadcast (ev) and appended to found.log (ap).
NoEffects == [ev |-> <<>>, ap |-> 0]

ResolverIdle ==
    /\ rEffects = NoEffects
    /\ rPc = "idle"
    /\ rCurrency = ""
    /\ rOrder = <<>>
    /\ rPlan = <<>>
    /\ rTokenBal = 0
    /\ rIdx = 0
    /\ rBalance = 0
    /\ rLog = <<>>
    /\ rResult = NoResult

Attempted(i, name, resp) == [t |-> "attempt", p |-> i, name |-> name, resp |-> resp]

Slept == [t |-> "sleep", p |-> 0, name |-> "",
          resp |-> [kind |-> "", value |-> 0, spent |-> 0]]

\* getBalance is called: the provider lookup, the shuffle, the first request.
ResolveBegin(c, n) ==
    /\ rPc = "idle"
    /\ rEffects' = NoEffects
    /\ rCurrency' = c
    /\ rLog' = <<>>
    /\ rBalance' = 0
    /\ IF c \notin Configured(variant) \/ n = 0
         THEN /\ rPc' = "done"
              /\ rResult' = NoProviders(variant, c)
              /\ rOrder' = <<>>
              /\ rPlan' = <<>>
              /\ rTokenBal' = 0
              /\ rIdx' = 0
         ELSE \E o \in Orders(variant, Len(ProviderList(variant, c, n))) :
              /\ rPc' = "fetch"
              /\ rOrder' = [i \in 1..Len(o) |-> ProviderList(variant, c, n)[o[i]]]
              /\ rPlan' \in Plans(rOrder')
              /\ rTokenBal' \in (IF {"probe", "check1"}
                                        \cap {TokenStage(variant, c, b) : b \in RawBalances} # {}
                                   THEN Balances ELSE {0})
              /\ rIdx' = 1
              /\ rResult' = NoResult

\* A call of getBalance on its own.
ResolveCall(c, n) ==
    /\ ResolveBegin(c, n)
    /\ UNCHANGED <<variant, scanVars, notResolve>>

\* for (const provider of providers): the next iteration, or the return
\* after the loop.
NextProvider(log) ==
    /\ rLog' = log
    /\ rBalance' = 0
    /\ IF rIdx < Len(rOrder)
         THEN /\ rIdx' = rIdx + 1
              /\ rPc' = "fetch"
              /\ rResult' = NoResult
         ELSE /\ rIdx' = rIdx
              /\ rPc' = "done"
              /\ rResult' = AllFailed(variant)
    /\ UNCHANGED <<rCurrency, rOrder, rPlan, rTokenBal>>

\* The catch block: variants 1 and 3 await sleep(1000); variant 2 goes on.
Catch(log) ==
    IF variant = 2 THEN NextProvider(log)
    ELSE /\ rPc' = "sleep"
         /\ rLog' = log
         /\ UNCHANGED <<rCurrency, rOrder, rPlan, rTokenBal, rIdx, rBalance, rResult>>

\* A provider loop that goes on to the next provider after a result.
KeepGoing(log, result) ==
    NextProvider(log)

Return(log, result) ==
    /\ rPc' = "done"
    /\ rLog' = log
    /\ rResult' = result
    /\ UNCHANGED <<rCurrency, rOrder, rPlan, rTokenBal, rIdx, rBalance>>

\* The provider being tried answers.
Respond ==
    /\ rPc = "fetch"
    /\ LET resp == rPlan[rIdx]
           log == Append(rLog, Attempted(rIdx, rOrder[rIdx], resp))
           e == Extract(variant, rOrder[rIdx], resp)
           stage == TokenStage(variant, rCurrency, e.balance)
       IN  CASE e.status = "throw" -> Catch(log)
             [] e.status = "null" /\ stage # "check1" -> NextProvider(log)
             [] e.status = "null" /\ stage = "check1" ->
                    /\ rPc' = "usdtNull"
                    /\ rLog' = log
                    /\ UNCHANGED <<rCurrency, rOrder, rPlan, rTokenBal, rIdx, rBalance, rResult>>
             [] e.status = "value" /\ stage = "check1" ->
                    /\ rPc' = "usdt"
                    /\ rLog' = log
                    /\ rBalance' = e.balance
                    /\ UNCHANGED <<rCurrency, rOrder, rPlan, rTokenBal, rIdx, rResult>>
             [] e.status = "value" /\ stage = "return" ->
                    Return(log, ReturnBalance(variant, e.balance))
             [] e.status = "value" /\ stage = "throw" -> Catch(log)
             [] e.status = "value" /\ stage = "probe" ->
                    /\ rPc' = "token"
                    /\ rLog' = log
                    /\ rBalance' = e.balance
                    /\ UNCHANGED <<rCurrency, rOrder, rPlan, rTokenBal, rIdx, rResult>>
    /\ UNCHANGED <<variant, scanVars, notResolve, rEffects>>

\* Variant 3: contract.balanceOf answers the token balance, or throws.
TokenDone(throws) ==
    /\ rPc = "token"
    /\ IF throws THEN Catch(rLog)
       ELSE IF rTokenBal > 0 THEN Return(rLog, Object(rBalance, {"usdt"}, rTokenBal))
       ELSE Return(rLog, ReturnBalance(variant, rBalance))
    /\ UNCHANGED <<variant, scanVars, notResolve, rEffects>>

\* Variant 1, lines 259-308: what the secondary USDT check of a call adds to
\* the call's effects.  The token request throws or answers the balance
\* rTokenBal; a positive balance is appended to found.log and then
\* broadcast; a throw of either is caught and logged.
UsdtEffects1(eff, throws, tokenBal, appendOk) ==
    IF ~throws /\ tokenBal > 0 /\ appendOk
        THEN [ev |-> Append(eff.ev, Found("usdt", "", tokenBal)), ap |-> eff.ap + 1]
        ELSE eff

\* Variant 1: the secondary USDT check is over; `if (balance !== null)
\* return balance`, else the next provider.
UsdtDone1(throws, appendOk) ==
    /\ rPc \in {"usdt", "usdtNull"}
    /\ rEffects' = UsdtEffects1(rEffects, throws, rTokenBal, appendOk)
    /\ IF rPc = "usdt" THEN Return(rLog, ReturnBalance(variant, rBalance))
                       ELSE NextProvider(rLog)
    /\ UNCHANGED <<variant, scanVars, notResolve>>

\* await sleep(1000) in the catch block is over.
BackoffDone ==
    /\ rPc = "sleep"
    /\ NextProvider(Append(rLog, Slept))
    /\ UNCHANGED <<variant, scanVars, notResolve, rEffects>>

\* The caller has the result; the next call may start.
ResolveEnd ==
    /\ rPc = "done"
    /\ rEffects' = NoEffects
    /\ rPc' = "idle"
    /\ rCurrency' = ""
    /\ rOrder' = <<>>
    /\ rPlan' = <<>>
    /\ rTokenBal' = 0
    /\ rIdx' = 0
    /\ rBalance' = 0
    /\ rLog' = <<>>
    /\ rResult' = NoResult

ResolveReturned ==
    /\ ResolveEnd
    /\ UNCHANGED <<variant, scanVars, notResolve>>

NextResolve ==
    \/ \E c \in Configured(variant) \cup {Unconfigured}, n \in 0..MaxProviders :
          ResolveCall(c, n)
    \/ Respond
    \/ \E throws \in BOOLEAN : TokenDone(throws)
    \/ \E throws, appendOk \in BOOLEAN : UsdtDone1(throws, appendOk)
    \/ BackoffDone
    \/ ResolveReturned

\* ------------------------------------------------------------------------
\* The exchange-rate refresh: updateAllExchangeRates (variant 3).

\* Bound: the largest price a response or a cache entry holds.
MaxRate == 2

Rates == 0..MaxRate

\* What the price request can answer.  kind:
\*   "throw"  fetch or response.json() throws
\*   "error"  a non-2xx status, or a body with Response === 'Error'
\*   "ok"     a 2xx body; usd[c] is data[symbol].USD of c's symbol, 0 when
\*            the body has no entry for the symbol or the entry has no price
NoPrices == [c \in RateKeys |-> 0]

RefreshResponses ==
    {[kind |-> k, usd |-> NoPrices] : k \in {"throw", "error"}}
    \cup {[kind |-> "ok", usd |-> u] : u \in [RateKeys -> Rates]}

NoResponse == [kind |-> "none", usd |-> NoPrices]

\* The hardcoded rates of the error and catch branches.
FallbackRates ==
    [c \in RateKeys |->
        CASE c = "bitcoin" -> 60000
          [] c = "ethereum" -> 3000
          [] c = "solana" -> 150
          [] c = "ton" -> 6
          [] c = "usdt" -> 1]

\* A refresh that replaces the whole cache by the body.
Wholesale(cache, usd) ==
    usd

\* The success branch: an entry is written when the body has a price for it.
Merged(cache, usd) ==
    [c \in RateKeys |-> IF usd[c] # 0 THEN usd[c] ELSE cache[c]]

\* A refresh that has written its first entry only when it yields.
RefreshedInPart(cache, resp) ==
    [cache EXCEPT !["bitcoin"] =
        IF resp.kind = "ok" THEN Merged(cache, resp.usd)["bitcoin"]
                            ELSE FallbackRates["bitcoin"]]

\* The cache after updateAllExchangeRates has handled the answer resp.
Refreshed(cache, resp) ==
    IF resp.kind = "ok" THEN Merged(cache, resp.usd) ELSE FallbackRates

\* The server past its startup.
RefreshIdle ==
    /\ uPc = "listening"
    /\ uResp = NoResponse

\* startServer calls updateAllExchangeRates, which sends the price request.
UpdateStart ==
    /\ uPc = "boot"
    /\ uPc' = "fetch"
    /\ UNCHANGED <<variant, scanVars, notRefresh, uResp>>

\* The price request is answered; the cache is written; app.listen.
UpdateDone(resp) ==
    /\ uPc = "fetch"
    /\ uPc' = "listening"
    /\ uResp' = resp
    /\ exchangeRateCache' = Refreshed(exchangeRateCache, resp)
    /\ UNCHANGED <<variant, isChecking, isPaused, checkingInterval, loops, out, notRefresh>>

NextRefresh ==
    \/ UpdateStart
    \/ \E resp \in RefreshResponses : UpdateDone(resp)

\* ------------------------------------------------------------------------
\* The manual check: app.post('/check-balance') of variants 1 and 3.
\* (Variant 2 registers no such route.)

\* The currencies a request can name: the chains, the two token names
\* variant 1 knows, and one name that is none of them.
CheckCurrencies == Configured(1) \cup {"usdt", "usdt_trc20", Unconfigured}

\* The keys of `networks`.
Networks(v) ==
    IF v = 3 THEN {"bitcoin", "ethereum", "solana", "ton"}
             ELSE {"bitcoin", "ethereum", "tron", "solana", "ton"}

\* balanceInUSD.toFixed(2) for a balance of base units and a rate.  With the
\* balances and rates of this model the product is below half a cent of
\* the smallest denomination (10^6), so the digits are 0.00; toFixed keeps
\* the sign of a negative number that rounds to zero, and -0 prints as 0.00.
UsdFixed(balance, rate) ==
    IF balance < 0 /\ rate > 0 THEN "-0.00" ELSE "0.00"

\* A reply: status 200 with the balance fields (variant 3 nests them under
\* `native` and adds `tokens`), status 500 with {error}, or status 0 when
\* the handler ends without answering.
Reply(status, shape, balance, usd, tokens, tokenBal) ==
    [status |-> status, shape |-> shape, balance |-> balance, usd |-> usd,
     tokens |-> tokens, tokenBal |-> tokenBal]

NoReply == Reply(0, "none", 0, "", {}, 0)

ErrorReply == Reply(500, "error", 0, "", {}, 0)

CheckIdle ==
    /\ cPc = "idle"
    /\ cCurrency = ""
    /\ cReply = NoReply

\* Variant 1, lines 442-480: the currencies the handler looks up itself.
\* apiProviders is keyed by chain and holds arrays, so apiProviders.etherscan
\* and apiProviders.toncenter are undefined and apiProviders.solana.baseURL
\* is undefined: the branches of usdt, ton and solana throw into the catch.
DirectThrows1(c) == c \in {"usdt", "solana", "ton"}

\* Variant 1, lines 147-163: getExchangeRate returns without a request when
\* the cache has the rate or CoinGecko has no id for the currency.
NeedsRateRequest1(cache, c) ==
    /\ getExchangeRate(cache, c) = 0
    /\ c \in {"bitcoin", "ethereum", "tron", "solana", "ton"}

\* Variant 1, lines 485-501: the answer for a balance and a rate.
Answer1(balance, rate) ==
    Reply(200, "flat", balance, UsdFixed(balance, rate), {}, 0)

\* Variant 3, lines 1224-1256, for the result r of getBalance: a currency
\* that is no key of networks, or a result without `native`, throws out of
\* the handler, and nothing is answered.
Answer3(c, r, cache) ==
    IF c \notin Networks(3) \/ r.shape # "object" THEN NoReply
    ELSE Reply(200, "nested", r.native, UsdFixed(r.native, getExchangeRate(cache, c)),
               r.tokens, r.tokenBal)

\* A request arrives.
CheckBalance(c, n) ==
    /\ cPc = "idle"
    /\ cCurrency' = c
    /\ IF variant = 1 /\ DirectThrows1(c)
         THEN /\ cPc' = "done"
              /\ cReply' = ErrorReply
              /\ UNCHANGED resVars
       ELSE IF variant = 1 /\ c = "usdt_trc20"
         THEN /\ cPc' = "tron"
              /\ cReply' = NoReply
              /\ UNCHANGED resVars
         ELSE /\ cPc' = "balance"
              /\ cReply' = NoReply
              /\ ResolveBegin(c, n)
    /\ UNCHANGED <<variant, scanVars, notCheck>>

\* Variant 1, lines 450-472: the TRC20 call answers b, or throws (b = 0);
\* 'usdt_trc20' has no rate.
TronDone(b) ==
    /\ cPc = "tron"
    /\ cPc' = "done"
    /\ cReply' = Answer1(b, 0)
    /\ UNCHANGED <<variant, scanVars, notCheck, resVars, cCurrency>>

\* getBalance has returned.
CheckResolved ==
    /\ cPc = "balance"
    /\ rPc = "done"
    /\ IF variant = 3
         THEN /\ cPc' = "done"
              /\ cReply' = Answer3(cCurrency, rResult, exchangeRateCache)
       ELSE IF NeedsRateRequest1(exchangeRateCache, cCurrency)
         THEN /\ cPc' = "rate"
              /\ cReply' = [NoReply EXCEPT !.balance = rResult.native]
         ELSE /\ cPc' = "done"
              /\ cReply' = Answer1(rResult.native,
                                   getExchangeRate(exchangeRateCache, cCurrency))
    /\ UNCHANGED <<variant, scanVars, notCheck, resVars, cCurrency>>

\* Variant 1: the rate request is over; `rate` is 0 when its tries failed.
CheckRateDone(rate) ==
    /\ cPc = "rate"
    /\ cPc' = "done"
    /\ cReply' = Answer1(cReply.balance, rate)
    /\ exchangeRateCache' =
         IF rate > 0 /\ cCurrency \in DOMAIN exchangeRateCache
            THEN [exchangeRateCache EXCEPT ![cCurrency] = rate]
            ELSE exchangeRateCache
    /\ UNCHANGED <<variant, isChecking, isPaused, checkingInterval, loops, out,
                   notCheck, resVars, cCurrency>>

\* The request is over; the next one may arrive.
CheckOver ==
    /\ cPc = "done"
    /\ cPc' = "idle"
    /\ cCurrency' = ""
    /\ cReply' = NoReply
    /\ IF rPc = "done" THEN ResolveEnd ELSE UNCHANGED resVars
    /\ UNCHANGED <<variant, scanVars, notCheck>>

NextCheck ==
    \/ \E c \in CheckCurrencies, n \in 1..MaxProviders : CheckBalance(c, n)
    \/ \E b \in Balances : TronDone(b)
    \/ Respond
    \/ \E throws \in BOOLEAN : TokenDone(throws)
    \/ \E throws, appendOk \in BOOLEAN : UsdtDone1(throws, appendOk)
    \/ BackoffDone
    \/ CheckResolved
    \/ \E rate \in Rates : CheckRateDone(rate)
    \/ CheckOver

\* ------------------------------------------------------------------------
\* The event stream: app.get('/events') and broadcast(data).

\* Bound: how many /events requests are made.
MaxSubscribers == 3

\* Bound: how many times broadcast() is called.
MaxEvents == 3

SubIds == 1..MaxSubscribers

\* clients.filter(client => client !== res) that removes nothing.
Keep(cl, s) ==
    cl

\* clients.filter(client => client !== res)
Without(cl, s) ==
    SelectSeq(cl, LAMBDA x : x # s)

\* clients.forEach(client => client.write(...)) for the e-th event: the
\* event is appended to the stream of each element of the array, in turn.
RECURSIVE WriteAll(_, _, _)
WriteAll(cl, box, e) ==
    IF cl = <<>> THEN box
    ELSE WriteAll(Tail(cl), [box EXCEPT ![Head(cl)] = Append(@, e)], e)

SubsIdle ==
    /\ clients = <<>>
    /\ conn = [s \in SubIds |-> "new"]
    /\ inbox = [s \in SubIds |-> <<>>]
    /\ sent = 0
    /\ joinedAt = [s \in SubIds |-> 0]
    /\ leftAt = [s \in SubIds |-> 0]

\* GET /events: the headers are flushed and res is pushed to clients.
Subscribe(s) ==
    /\ conn[s] = "new"
    /\ conn' = [conn EXCEPT ![s] = "open"]
    /\ clients' = Append(clients, s)
    /\ joinedAt' = [joinedAt EXCEPT ![s] = sent]
    /\ UNCHANGED <<variant, scanVars, notEvents, inbox, sent, leftAt>>

\* req.on('close'): the response leaves clients.
Disconnect(s) ==
    /\ conn[s] = "open"
    /\ conn' = [conn EXCEPT ![s] = "closed"]
    /\ clients' = Without(clients, s)
    /\ leftAt' = [leftAt EXCEPT ![s] = sent]
    /\ UNCHANGED <<variant, scanVars, notEvents, inbox, sent, joinedAt>>

\* broadcast(data) is called.
Broadcast ==
    /\ sent < MaxEvents
    /\ sent' = sent + 1
    /\ inbox' = WriteAll(clients, inbox, sent + 1)
    /\ UNCHANGED <<variant, scanVars, notEvents, clients, conn, joinedAt, leftAt>>

NextEvents ==
    \/ \E s \in SubIds : Subscribe(s)
    \/ \E s \in SubIds : Disconnect(s)
    \/ Broadcast

\* ------------------------------------------------------------------------
\* The derivation of addresses: deriveAddress and its callers' ethereum case.

\* Bound: how many mnemonics the derivations are given.
MaxSeeds == 2

Mnemonics == 1..MaxSeeds

\* networks[chain].path
Path(c) ==
    CASE c = "bitcoin" -> "m/44'/0'/0'/0/0"
      [] c = "ethereum" -> "m/44'/60'/0'/0/0"
      [] c = "tron" -> "m/44'/195'/0'/0/0"
      [] c = "solana" -> "m/44'/501'/0'/0'"
      [] c = "ton" -> "m/44'/607'/0'/0'"

\* An address: the encoding `scheme` of the key derived from the mnemonic m
\* (or its seed) through `via`; "throw" when the derivation throws.
Address(scheme, via, m) == [scheme |-> scheme, via |-> via, key |-> m]

DeriveThrows == Address("throw", "", 0)

\* A derivation whose key depends on a flag of the scan.
deriveWithFlag(v, c, m) ==
    Address(c, "", IF isPaused THEN 0 ELSE m)

\* deriveAddress(currency, {seed, root, mnemonic}).  bitcoin derives the
\* child key at the chain's path from root; tron (variant 1) derives the
\* ethers wallet at the chain's path; solana takes the first 32 bytes of the
\* seed; ton takes the wallet key of the mnemonic; any other currency throws.
deriveAddress(v, c, m) ==
    CASE c = "bitcoin" -> Address("p2pkh", Path(c), m)
      [] c = "tron" /\ v = 1 -> Address("tron", Path(c), m)
      [] c = "solana" -> Address("base58", "seed[0..32]", m)
      [] c = "ton" -> Address("walletV4", "mnemonicToWalletKey", m)
      [] OTHER -> DeriveThrows

\* The address a sweep takes for a chain: ethereum is derived in the loop
\* with ethers.Wallet.fromPhrase (the path of variant 3's call is ethers'
\* default, the same path), the others by deriveAddress.
SweepAddress(v, c, m) ==
    IF c = "ethereum" THEN Address("ethereum", Path(c), m)
                      ELSE deriveAddress(v, c, m)

Seen(addr, paused) == [addr |-> addr, paused |-> paused]

DeriveIdle ==
    /\ dSeed = 0
    /\ dSeen = [c \in Configured(1) |-> {}]

\* A derivation for chain c with the mnemonic dSeed.
Derive(c) ==
    /\ dSeed \in Mnemonics
    /\ dSeen' = [dSeen EXCEPT ![c] = @ \cup {Seen(SweepAddress(variant, c, dSeed), isPaused)}]
    /\ UNCHANGED <<variant, scanVars, notDerive, dSeed>>

\* ------------------------------------------------------------------------
\* The decoding of a provider's balance (variants 1 and 3).

\* Bound: how far above 2^53 (or above 0) an amount lies.
MaxOffset == 3

\* An amount of base units: off, or 2^53 + off when `big`.
Amount(big, off) == [big |-> big, off |-> off]

Amounts == {Amount(big, off) : big \in BOOLEAN, off \in 0..MaxOffset}

\* The value as a JavaScript number (JSON.parse of a number, parseInt, the
\* return of a client that answers a number): an IEEE double has 53 bits
\* of mantissa, so between 2^53 and 2^54 only the even integers exist and
\* an odd one is rounded to the neighbour whose mantissa is even.
ToNumber(a) ==
    IF ~a.big \/ a.off % 2 = 0 THEN a
    ELSE IF ((a.off - 1) \div 2) % 2 = 0 THEN Amount(TRUE, a.off - 1)
    ELSE Amount(TRUE, a.off + 1)

\* The places that take a balance from a provider:
\*   etherscan      BigInt(data.result), result a decimal string
\*   mempool_space  BigInt(stats.funded_txo_sum), a JSON number
\*   trongrid       BigInt(data[0].balance), a JSON number
\*   solana         connection.getBalance, a number
\*   toncenter      client.getBalance, a bigint
\*   erc20          tokenData.result, a string (variant 1);
\*                  contract.balanceOf, a bigint (variant 3)
\*   trc20          parseInt(constant_result[0], 16) in getBalance (variant 1)
\*   check_trc20    BigInt(parseInt(usdtBalanceRaw, 16)) in /check-balance
\*                  (variant 1)
DecodeSites(v) ==
    {"etherscan", "mempool_space", "trongrid", "solana", "toncenter", "erc20"}
    \cup (IF v = 1 THEN {"trc20", "check_trc20"} ELSE {})

\* The balance the code holds after decoding the amount a at the site.
Decode(v, site, a) ==
    IF site \in {"etherscan", "toncenter", "erc20"} THEN a ELSE ToNumber(a)

DecodeIdle ==
    /\ pPc = "idle"
    /\ pSite = ""
    /\ pAmount = Amount(FALSE, 0)
    /\ pOut = Amount(FALSE, 0)

\* A provider answers the amount a to the request of a site.
Provide(site, a) ==
    /\ pPc = "idle"
    /\ pPc' = "wire"
    /\ pSite' = site
    /\ pAmount' = a
    /\ pOut' = Amount(FALSE, 0)
    /\ UNCHANGED <<variant, scanVars, notDecode>>

\* The code decodes the answer; String(balance) then prints it digit by digit.
Decoded ==
    /\ pPc = "wire"
    /\ pPc' = "decoded"
    /\ pOut' = Decode(variant, pSite, pAmount)
    /\ UNCHANGED <<variant, scanVars, notDecode, pSite, pAmount>>

\* The balance has been reported.
DecodeOver ==
    /\ pPc = "decoded"
    /\ pPc' = "idle"
    /\ pSite' = ""
    /\ pAmount' = Amount(FALSE, 0)
    /\ pOut' = Amount(FALSE, 0)
    /\ UNCHANGED <<variant, scanVars, notDecode>>

NextDecode ==
    \/ \E site \in DecodeSites(variant), a \in Amounts : Provide(site, a)
    \/ Decoded
    \/ DecodeOver

\* ------------------------------------------------------------------------
\* The browser client: startEventSource and the click handlers.

\* Bound: how many EventSource objects the page creates.
MaxSources == 5

\* Bound: how many messages the page handles.
MaxShown == 3

\* startEventSource that opens a stream without closing the one it holds.
LeaveOpen(open, cur) ==
    open

\* if (eventSource) { eventSource.close(); }
CloseCurrent(open, cur) ==
    open \ {cur}

ClientIdle ==
    /\ eventSource = 0
    /\ esOpen = {}
    /\ esCount = 0
    /\ esShown = 0
    /\ esLast = "load"

\* A click on start: fetch('/start'), then startEventSource().
StartClick ==
    /\ esCount < MaxSources
    /\ esCount' = esCount + 1
    /\ eventSource' = esCount + 1
    /\ esOpen' = CloseCurrent(esOpen, eventSource) \cup {esCount + 1}
    /\ esLast' = "start"
    /\ UNCHANGED <<variant, scanVars, notClient, esShown>>

\* A click on stop: fetch('/stop'), then the stream held is closed.
StopClick ==
    /\ esOpen' = CloseCurrent(esOpen, eventSource)
    /\ esLast' = "stop"
    /\ UNCHANGED <<variant, scanVars, notClient, eventSource, esCount, esShown>>

\* The stream of the object e fails: its onerror closes the stream the
\* variable holds.
StreamError(e) ==
    /\ e \in esOpen
    /\ esOpen' = CloseCurrent(esOpen, eventSource)
    /\ esLast' = "error"
    /\ UNCHANGED <<variant, scanVars, notClient, eventSource, esCount, esShown>>

\* An open stream delivers a message: its onmessage updates the page.
StreamMessage(e) ==
    /\ e \in esOpen
    /\ esShown < MaxShown
    /\ esShown' = esShown + 1
    /\ UNCHANGED <<variant, scanVars, notClient, eventSource, esOpen, esCount, esLast>>

NextClient ==
    \/ StartClick
    \/ StopClick
    \/ \E e \in 1..MaxSources : StreamError(e)
    \/ \E e \in 1..MaxSources : StreamMessage(e)

\* ------------------------------------------------------------------------
\* The handlers and the steps of the loops.

\* The rate cache when the server starts to listen.  Variants 1 and 2 start
\* with the empty object.  Variant 3 awaits updateAllExchangeRates() first:
\* the cache holds every rate (from the response or the hardcoded ones), or
\* none when the response names no symbol.
StartupCaches(v) ==
    IF v = 3 THEN {[c \in RateKeys |-> 0], [c \in RateKeys |-> 1]}
             ELSE {[c \in RateKeys |-> 0]}

ScanIdle ==
    /\ isChecking = FALSE
    /\ isPaused = FALSE
    /\ checkingInterval = FALSE
    /\ loops = [l \in LoopIds |-> NoLoop]
    /\ exchangeRateCache \in StartupCaches(variant)
    /\ out = NoOutput

Init ==
    /\ variant \in Variants
    /\ ScanIdle
    /\ ResolverIdle
    /\ RefreshIdle
    /\ CheckIdle
    /\ SubsIdle
    /\ DeriveIdle
    /\ DecodeIdle
    /\ ClientIdle

\* The servers that register /check-balance.
InitCheck ==
    /\ Init
    /\ variant \in {1, 3}

\* Variant 3 at process start, before startServer runs.  The cache is the
\* one updateAllExchangeRates is applied to: {} at startup, and any content
\* for a later call of the function.
InitRefresh ==
    /\ variant = 3
    /\ isChecking = FALSE
    /\ isPaused = FALSE
    /\ checkingInterval = FALSE
    /\ loops = [l \in LoopIds |-> NoLoop]
    /\ out = NoOutput
    /\ exchangeRateCache \in [RateKeys -> Rates]
    /\ ResolverIdle
    /\ uPc = "boot"
    /\ uResp = NoResponse
    /\ CheckIdle
    /\ SubsIdle
    /\ DeriveIdle
    /\ DecodeIdle
    /\ ClientIdle

\* runChecks() called by the start handler: the first while test passes
\* (the handler has just set the flags) and it runs to await mnemonicToSeed.
Launch(v, len, strength) ==
    LET lp == [NoLoop EXCEPT !.length = len, !.strength = strength]
    IN  [lp EXCEPT !.pc = "seed", !.words = WordCount(GenStrength(v, lp))]

\* A start handler without the `if (isChecking)` early return: every valid
\* request launches a loop.
Start3Relaunch(len) ==
    /\ variant = 3
    /\ isPaused' = FALSE
    /\ isChecking' = TRUE
    /\ IF StrengthSwitch(len) = 0
         THEN /\ out' = Output("start", len, 400, <<>>, 0)
              /\ UNCHANGED loops
         ELSE /\ FreeSlots # {}
              /\ loops' = [loops EXCEPT ![FreeSlot] =
                              Launch(3, len, StrengthSwitch(len))]
              /\ out' = Output("start", len, 200, <<>>, 0)
    /\ UNCHANGED <<notScan, variant, checkingInterval, exchangeRateCache>>

\* app.post('/start') of variant 3.
Start3(len) ==
    /\ variant = 3
    /\ isPaused' = FALSE
    /\ IF isChecking
         THEN /\ out' = Output("start", len, 200, <<>>, 0)
              /\ UNCHANGED <<isChecking, loops>>
         ELSE /\ isChecking' = TRUE
              /\ IF StrengthSwitch(len) = 0
                   THEN /\ out' = Output("start", len, 400, <<>>, 0)
                        /\ UNCHANGED loops
                   ELSE /\ FreeSlots # {}
                        /\ loops' = [loops EXCEPT ![FreeSlot] =
                                        Launch(3, len, StrengthSwitch(len))]
                        /\ out' = Output("start", len, 200, <<>>, 0)
    /\ UNCHANGED <<notScan, variant, checkingInterval, exchangeRateCache>>

\* app.post('/start') of variant 1.
Start1(len) ==
    /\ variant = 1
    /\ isPaused' = FALSE
    /\ IF isChecking
         THEN /\ out' = Output("start", len, 200, <<>>, 0)
              /\ UNCHANGED <<isChecking, loops>>
         ELSE /\ isChecking' = TRUE
              /\ FreeSlots # {}
              /\ loops' = [loops EXCEPT ![FreeSlot] =
                              Launch(1, len, StrengthTernary(len))]
              /\ out' = Output("start", len, 200, <<>>, 0)
    /\ UNCHANGED <<notScan, variant, checkingInterval, exchangeRateCache>>

\* app.post('/start') of variant 2: the body is not read.
Start2(len) ==
    /\ variant = 2
    /\ isPaused' = FALSE
    /\ checkingInterval' = TRUE
    /\ out' = Output("start", len, 200, <<>>, 0)
    /\ UNCHANGED <<notScan, variant, isChecking, loops, exchangeRateCache>>

\* The setInterval callback of variant 2, up to await mnemonicToSeed.
Tick2 ==
    /\ variant = 2
    /\ checkingInterval
    /\ IF isPaused
         THEN /\ out' = Output("tick", 0, 0, <<>>, 0)
              /\ UNCHANGED loops
         ELSE /\ FreeSlots # {}
              /\ loops' = [loops EXCEPT ![FreeSlot] = Launch(2, 0, 0)]
              /\ out' = Output("tick", 0, 0, <<>>, 0)
    /\ UNCHANGED <<notScan, variant, isChecking, isPaused, checkingInterval, exchangeRateCache>>

\* app.post('/pause'), the same in the three variants.
Pause ==
    /\ isPaused' = TRUE
    /\ out' = Output("pause", 0, 200, <<>>, 0)
    /\ UNCHANGED <<notScan, variant, isChecking, checkingInterval, loops, exchangeRateCache>>

\* The loops in flight when a stop request is handled.
MarkStopped == [l \in LoopIds |-> IF Live(loops[l]) THEN [loops[l] EXCEPT !.stopped = TRUE]
                                                    ELSE loops[l]]

\* app.post('/stop') of variants 1 and 3.  `after` is the loops after the
\* request: the handler leaves them alone; the history flag may be set.
StopFlags13(after) ==
    /\ variant \in {1, 3}
    /\ isChecking' = FALSE
    /\ isPaused' = FALSE
    /\ loops' = after
    /\ out' = Output("stop", 0, 200, <<>>, 0)
    /\ UNCHANGED <<notScan, variant, checkingInterval, exchangeRateCache>>

\* app.post('/stop') of variant 2: clearInterval; checkingInterval = null.
StopFlags2(after) ==
    /\ variant = 2
    /\ checkingInterval' = FALSE
    /\ loops' = after
    /\ out' = Output("stop", 0, 200, <<>>, 0)
    /\ UNCHANGED <<notScan, variant, isChecking, isPaused, exchangeRateCache>>

Stop13 == StopFlags13(loops)

Stop2 == StopFlags2(loops)

\* The same handlers, recording in the history flag which loops they found
\* in flight.
Stop13H == StopFlags13(MarkStopped)

Stop2H == StopFlags2(MarkStopped)

\* One run of loop l from the await it is suspended at to its next one.
Apply(l, e) ==
    /\ loops' = [loops EXCEPT ![l] = e.lp]
    /\ exchangeRateCache' = e.cache
    /\ out' = Output("loop", 0, 0, e.ev, e.ap)
    /\ UNCHANGED <<notScan, variant, isChecking, isPaused, checkingInterval>>

SeedDone(l) ==
    /\ loops[l].pc = "seed"
    /\ \E d \in DeriveChoices(variant, 1) :
          Apply(l, ResumeSeed(variant, loops[l], d))

DeriveDone(l) ==
    /\ loops[l].pc = "derive"
    /\ \E o \in DeriveOutcomes, d \in DeriveChoices(variant, loops[l].chain + 1) :
          Apply(l, ResumeDerive(variant, loops[l], o, d))

BalanceDone(l) ==
    /\ loops[l].pc = "balance"
    /\ \E r \in ScanResults(variant, currenciesToCheck(variant)[loops[l].chain]),
          appendOk \in BOOLEAN,
          d \in DeriveChoices(variant, loops[l].chain + 1) :
          Apply(l, ResumeBalance(variant, loops[l], r, appendOk, d))

RateDone(l) ==
    /\ loops[l].pc = "rate"
    /\ \E rate \in 0..1, appendOk \in BOOLEAN,
          d \in DeriveChoices(variant, loops[l].chain + 1) :
          Apply(l, ResumeRate(variant, loops[l], rate, appendOk, d))

SleepDone(l) ==
    /\ loops[l].pc \in {"sleep1", "sleep2"}
    /\ Apply(l, ResumeSleep(variant, loops[l]))

Requests ==
    \/ \E len \in Lengths : Start1(len)
    \/ \E len \in Lengths : Start2(len)
    \/ \E len \in Lengths : Start3(len)
    \/ Pause

LoopSteps ==
    \/ Tick2
    \/ \E l \in LoopIds : SeedDone(l)
    \/ \E l \in LoopIds : DeriveDone(l)
    \/ \E l \in LoopIds : BalanceDone(l)
    \/ \E l \in LoopIds : RateDone(l)
    \/ \E l \in LoopIds : SleepDone(l)

Next ==
    \/ Requests
    \/ Stop13
    \/ Stop2
    \/ LoopSteps

\* The same server with the stop handlers' history recorded.
NextH ==
    \/ Requests
    \/ Stop13H
    \/ Stop2H
    \/ LoopSteps

vars == <<variant, scanVars, resVars, refVars, chkVars, subVars, derVars, decVars, cliVars>>

Spec == Init /\ [][Next]_vars

SpecH == Init /\ [][NextH]_vars

\* getBalance on its own: calls, provider answers, backoff sleeps.
SpecResolve == Init /\ [][NextResolve]_vars

\* The derivations of one mnemonic, in the variants that define
\* deriveAddress, while the flags of the scan change.
InitDerive ==
    /\ variant \in {1, 3}
    /\ ScanIdle
    /\ ResolverIdle
    /\ RefreshIdle
    /\ CheckIdle
    /\ SubsIdle
    /\ dSeed \in Mnemonics
    /\ dSeen = [c \in Configured(1) |-> {}]
    /\ DecodeIdle
    /\ ClientIdle

NextDerive ==
    \/ \E c \in Configured(1) : Derive(c)
    \/ Pause
    \/ Stop13

SpecDerive == InitDerive /\ [][NextDerive]_vars

\* The decoding of balances on its own, in the variants that decode with
\* BigInt.
InitDecode ==
    /\ Init
    /\ variant \in {1, 3}

SpecDecode == InitDecode /\ [][NextDecode]_vars

\* The page of the browser client, served by variant 3.
InitClient ==
    /\ Init
    /\ variant = 3

SpecClient == InitClient /\ [][NextClient]_vars

\* The event stream on its own.
SpecEvents == Init /\ [][NextEvents]_vars

\* The manual check on its own.
SpecCheck == InitCheck /\ [][NextCheck]_vars

\* updateAllExchangeRates on its own.
SpecRefresh == InitRefresh /\ [][NextRefresh]_vars

\* ------------------------------------------------------------------------
\* Properties.

\* The scan is on: isChecking (variants 1, 3), a timer set (variant 2).
Running == isChecking \/ checkingInterval

\* C1: at every moment at most one scan loop is in flight (suspended at one
\* of its awaits or running), whatever the interleaving of start, pause and
\* stop requests with the loop's awaits; in particular a loop launched by a
\* start that follows a stop is never in flight together with the loop the
\* stop was to end.
C1_AtMostOneLoop == Cardinality(LiveLoops) <= 1

\* A step of one loop from record a to record b generates a mnemonic, or
\* starts the balance resolution of a chain after the one a is at.
NewWork(a, b) ==
    \/ b.pc = "seed" /\ a.pc # "seed"
    \/ b.pc = "balance" /\ b.chain > a.chain

\* C2: a stop request leaves the scan not running, and a loop that was in
\* flight when a stop was handled starts no balance resolution for a chain
\* after the one it was at and generates no further mnemonic.
C2_StopEndsLoop ==
    [][/\ out'.req = "stop" => ~isChecking' /\ ~checkingInterval'
       /\ \A l \in LoopIds :
             Live(loops[l]) /\ loops[l].stopped => ~NewWork(loops[l], loops'[l])]_vars

\* C3: while the scan is running with the paused flag set (a pause was
\* handled and no start has cleared it), no step sends a progress event and
\* no loop starts a balance resolution.
C3_PauseHalts ==
    [][Running /\ isPaused =>
          /\ \A i \in 1..Len(out'.ev) : out'.ev[i].type # "progress"
          /\ \A l \in LoopIds :
                loops'[l].pc = "balance" =>
                    loops[l].pc = "balance" /\ loops[l].chain = loops'[l].chain]_vars

\* C4: a start request handled while the scan is running (paused or not)
\* clears the paused flag and changes nothing else: no loop is launched and
\* the running flags stay; and a loop in flight keeps the length and the
\* strength of the request that created it and the word count of its first
\* mnemonic, whatever requests arrive.
C4_StartWhileRunning ==
    [][/\ Running /\ out'.req = "start" =>
             /\ loops' = loops
             /\ isChecking' = isChecking
             /\ checkingInterval' = checkingInterval
             /\ ~isPaused'
             /\ out'.status = 200
       /\ \A l \in LoopIds :
             Live(loops[l]) /\ Live(loops'[l]) =>
                 /\ loops'[l].length = loops[l].length
                 /\ loops'[l].strength = loops[l].strength
                 /\ loops'[l].words = loops[l].words]_vars

\* A start for 24 words was just answered while a 12-word loop of variant 3
\* is in flight, and no other loop is.
C4_Witness ==
    /\ variant = 3
    /\ out.req = "start"
    /\ out.length = 24
    /\ out.status = 200
    /\ LiveLoops # {}
    /\ \A l \in LiveLoops : loops[l].length = 12 /\ loops[l].words = 12

\* C5: a loop of variants 1 and 3 ends only after a stop: no step taken
\* while isChecking is set ends a loop.
C5_OnlyStopEndsLoop ==
    [][\A l \in LoopIds :
          variant # 2 /\ isChecking /\ Live(loops[l]) => Live(loops'[l])]_vars

\* C6: a derivation that fails does not end the loop.  The steps that resume
\* from the seed and from the TON key derivation run derivations and no
\* file write, so none of them ends the loop by an exception.
C6_DerivationFailureSkipsChain ==
    [][\A l \in LoopIds :
          variant # 2 /\ loops[l].pc \in {"seed", "derive"} =>
              loops'[l].pc # "crashed"]_vars

\* C7: in variants 1 and 3 a start request whose length is not 12, 18 or 24
\* is answered with status 400, and no loop in flight was created for such
\* a length.
C7_InvalidLengthRejected ==
    variant # 2 =>
        /\ out.req = "start" /\ out.length \notin ValidLengths => out.status = 400
        /\ \A l \in LiveLoops : loops[l].length \in ValidLengths

\* C8: a start request answered with status 400 leaves the scan state as it
\* was: isChecking and the loops in flight are unchanged.
C8_RejectedStartChangesNothing ==
    [][out'.req = "start" /\ out'.status = 400 =>
          isChecking' = isChecking /\ loops' = loops]_vars

\* C9: in variants 1 and 3 the mnemonic a loop generated last has as many
\* words as the length, 12, 18 or 24, of the request that created the loop.
C9_WordCountIsLength ==
    \A l \in LiveLoops :
        variant # 2 /\ loops[l].length \in ValidLengths =>
            loops[l].words = loops[l].length

\* A provider failure: the request throws, the HTTP status is an error, the
\* provider signals an error in the body, or the body has no balance.
Fails(resp) == resp.kind # "ok"

\* C10: when getBalance has returned for a list whose providers all fail
\* except the last in the order tried, which reports a balance, it returned
\* that balance.
C10_LastProviderWins ==
    (/\ rPc = "done"
     /\ Len(rOrder) >= 1
     /\ \A i \in 1..(Len(rOrder) - 1) : Fails(rPlan[i])
     /\ ~Fails(rPlan[Len(rOrder)]))
    => /\ rResult.shape \in {"bare", "object"}
       /\ rResult.native = Reported(rOrder[Len(rOrder)], rPlan[Len(rOrder)])

\* The attempts one getBalance call has made so far.
Attempts == {i \in 1..Len(rLog) : rLog[i].t = "attempt"}

\* C11: when getBalance has returned after at least one attempt and every
\* provider it attempted failed, whatever the kind of failure, it returned
\* (it did not throw) and the native balance it returned is zero.
C11_AllFailZero ==
    (/\ rPc = "done"
     /\ Attempts # {}
     /\ \A i \in Attempts : Fails(rLog[i].resp))
    => /\ rResult.shape \in {"bare", "object"}
       /\ rResult.native = 0

\* Variant 3 has tried every provider of a list of two or more, one request
\* threw and one answered a non-2xx status, and the call has returned.
C11_Witness ==
    /\ variant = 3
    /\ rPc = "done"
    /\ Len(rOrder) >= 2
    /\ Cardinality(Attempts) = Len(rOrder)
    /\ \A i \in Attempts : Fails(rLog[i].resp)
    /\ \E i \in Attempts : rLog[i].resp.kind = "throw"
    /\ \E i \in Attempts : rLog[i].resp.kind = "notOk"

\* C12: when getBalance has returned for a currency with an empty or missing
\* provider list, it did not throw and its result has native balance zero in
\* the shape the variant returns for a provider's balance ({native, ...} in
\* variant 3, a bare balance in variants 1 and 2).
C12_NoProvidersShape ==
    (rPc = "done" /\ rOrder = <<>>)
    => /\ rResult.shape = ReturnBalance(variant, 0).shape
       /\ rResult.native = 0

\* C13: whatever the providers answered, a result getBalance returns has a
\* native balance of zero or more.
C13_NonNegative ==
    (rPc = "done" /\ rResult.shape \in {"bare", "object"}) => rResult.native >= 0

\* C14: within one getBalance call every failed attempt that is followed by
\* anything is followed by a backoff sleep: no provider is attempted
\* directly after a failed attempt.
C14_BackoffAfterFailure ==
    \A i \in 1..(Len(rLog) - 1) :
        (rLog[i].t = "attempt" /\ Fails(rLog[i].resp)) => rLog[i + 1].t = "sleep"

\* The last attempt of the call, when it has made one.
LastAttempt == rLog[CHOOSE i \in Attempts : \A j \in Attempts : j <= i]

\* C15: getBalance does not return on an Etherscan body whose status signals
\* an error: when it has returned and its last attempt got such a body, that
\* attempt was on the last provider of the list (there was none to fall
\* back to).
C15_EtherscanErrorFallsBack ==
    (/\ rPc = "done"
     /\ Attempts # {}
     /\ LastAttempt.resp.kind = "statusErr")
    => LastAttempt.p = Len(rOrder)

C17_TokensIncluded ==
    (/\ variant = 3
     /\ rPc = "done"
     /\ rCurrency = "ethereum"
     /\ rLog # <<>>
     /\ rLog[Len(rLog)].t = "attempt"
     /\ rLog[Len(rLog)].resp.kind = "ok"
     /\ rTokenBal > 0)
    => /\ "usdt" \in rResult.tokens
       /\ rResult.tokenBal = rTokenBal

\* The found events among the events ev.
FoundIn(ev) == {i \in 1..Len(ev) : ev[i].type = "found"}

\* C18: wherever a loop awaits getBalance, whatever result r it gets and
\* whether or not found.log accepts a write, the run that handles r sends as
\* many found events as it appends found-records, every found event carries
\* a balance above zero, and it sends a found event exactly when the native
\* balance or a token balance of r is nonzero.
C18_FoundEventAndRecord ==
    \A l \in LoopIds :
        loops[l].pc = "balance" =>
            \A r \in ScanResults(variant, currenciesToCheck(variant)[loops[l].chain]),
               appendOk \in BOOLEAN,
               d \in DeriveChoices(variant, loops[l].chain + 1) :
                LET e == ResumeBalance(variant, loops[l], r, appendOk, d)
                IN  /\ Cardinality(FoundIn(e.ev)) = e.ap
                    /\ \A i \in FoundIn(e.ev) : e.ev[i].balance > 0
                    /\ (FoundIn(e.ev) # {}) = (r.native > 0 \/ r.tokens # {})

\* The cache entry a message's USD value is computed from.
RateKey(e) == IF e.token # "" THEN e.token ELSE e.currency

\* C19: a rate lookup for an entry that has never been populated returns 0:
\* every message a step sends for a currency or token whose cache entry was
\* empty before the step has its USD value computed with rate 0.
C19_UnpopulatedRateIsZero ==
    [][\A i \in 1..Len(out'.ev) :
          getExchangeRate(exchangeRateCache, RateKey(out'.ev[i])) = 0
              => out'.ev[i].rate = 0]_vars

\* C20: the scan loop is never suspended inside an exchange-rate lookup
\* waiting for a remote price request.
C20_RateLookupNeverWaits == \A l \in LoopIds : loops[l].pc # "rate"

\* C21: after a refresh that succeeds with a partial response, every cached
\* symbol the response has no price for keeps the value it had before the
\* refresh, and every symbol the response has a price for holds the new one.
C21_PartialRefresh ==
    [][(uPc = "fetch" /\ uPc' = "listening" /\ uResp'.kind = "ok")
        => \A c \in RateKeys :
            exchangeRateCache'[c] =
                IF uResp'.usd[c] = 0 THEN exchangeRateCache[c] ELSE uResp'.usd[c]]_vars

\* A partial success: one symbol kept its (populated) value, another took
\* the price of the response.
C21_Witness ==
    /\ uPc = "listening"
    /\ uResp.kind = "ok"
    /\ \E c, d \in RateKeys :
        /\ uResp.usd[c] = 0
        /\ exchangeRateCache[c] = MaxRate
        /\ uResp.usd[d] = 1
        /\ exchangeRateCache[d] = 1

\* C22: when a refresh fails (the request throws, or the endpoint answers
\* with an error), every cache entry keeps the value it had before.
C22_FailedRefreshKeepsCache ==
    [][(uPc = "fetch" /\ uPc' = "listening" /\ uResp'.kind \in {"throw", "error"})
        => exchangeRateCache' = exchangeRateCache]_vars

\* C23: the refresh recurs: once a refresh has completed, another one can
\* take place.
C23_RefreshRecurs ==
    (uPc = "listening" /\ uResp # NoResponse) => ENABLED NextRefresh


\* The chains the service supports.
Supported == {"bitcoin", "ethereum", "tron", "solana", "ton"}

\* The address of the request holds nothing: whatever was asked about it
\* and answered reported zero.
HoldsNothing ==
    /\ rTokenBal = 0
    /\ \A i \in 1..Len(rPlan) :
          rPlan[i].kind = "ok" => Reported(rOrder[i], rPlan[i]) = 0

\* C24: for every supported currency, a check-balance request for an address
\* whose balance is zero is answered with balance "0" and balanceInUSD "0.00".
C24_ZeroBalanceAnswer ==
    (cPc = "done" /\ cCurrency \in Supported /\ HoldsNothing)
        => (cReply.status = 200 /\ cReply.balance = 0 /\ cReply.usd = "0.00")

\* C25: a check-balance request naming a currency that is no supported chain
\* is answered with an error: not with a balance, and not left unanswered.
C25_UnsupportedCurrencyError ==
    (cPc = "done" /\ cCurrency = Unconfigured) => cReply.status = 500

\* C26: resolving a balance has no side effect: a call of getBalance made for
\* a manual check broadcasts no event and appends no found-record.
C26_ResolveHasNoSideEffect ==
    cPc # "idle" => rEffects = NoEffects


\* C27: each broadcast event is written at most once, and in broadcast
\* order, to each subscriber connected at the moment of the broadcast; a
\* subscriber never receives an event broadcast before it connected, and
\* receives nothing once its connection has closed.
C27_EventDelivery ==
    \A s \in SubIds :
        /\ \A i, j \in 1..Len(inbox[s]) : i < j => inbox[s][i] < inbox[s][j]
        /\ \A i \in 1..Len(inbox[s]) :
              /\ conn[s] # "new"
              /\ inbox[s][i] > joinedAt[s]
              /\ conn[s] = "closed" => inbox[s][i] <= leftAt[s]

\* One subscriber connected after the first broadcast, received the second,
\* closed, and a third broadcast followed; another received all three.
C27_Witness ==
    /\ sent = MaxEvents
    /\ \E s, t \in SubIds :
          /\ conn[s] = "closed"
          /\ inbox[s] = <<2>>
          /\ conn[t] = "open"
          /\ inbox[t] = <<1, 2, 3>>


\* The supported chains in the order of a sweep.
SupportedOrder == <<"bitcoin", "ethereum", "tron", "solana", "ton">>

\* C28: every sweep derives one address for each supported chain (bitcoin,
\* ethereum, tron, solana, ton), in the same fixed order: the chain a loop
\* is working on in its i-th iteration is the i-th supported chain.
C28_SweepCoversChains ==
    \A l \in LoopIds :
        (Live(loops[l]) /\ loops[l].chain > 0)
            => /\ NChains(variant) = Len(SupportedOrder)
               /\ currenciesToCheck(variant)[loops[l].chain] = SupportedOrder[loops[l].chain]


C30_MissingFieldFallsBack ==
    (/\ rPc = "done"
     /\ Attempts # {}
     /\ LastAttempt.resp.kind = "missing")
    => /\ LastAttempt.p = Len(rOrder)
       /\ rResult = AllFailed(variant)


\* C31: within one call of getBalance, as soon as a provider returns a
\* non-error result no provider later in the order is queried: no attempt
\* follows an attempt that was answered with a balance.
\* The call is made on a provider list as long as the program configures
\* it: apiConfig[currency].providers in variant 2, the one entry of
\* apiProviders[currency] in variants 1 and 3.
AsConfigured ==
    Len(rOrder) = IF variant = 2 THEN Len(apiConfig2(rCurrency)) ELSE Len(<<ProviderName(rCurrency)>>)

StartsResolution(l) ==
    /\ loops'[l].pc = "balance"
    /\ loops[l].pc # "balance" \/ loops[l].chain # loops'[l].chain

\* A step that keeps the order of progress, resolution and found.
ProgressResolveFound ==
    /\ \A l \in LoopIds :
          StartsResolution(l)
              => \E i \in 1..Len(out'.ev) :
                    /\ out'.ev[i].type = "progress"
                    /\ out'.ev[i].currency = currenciesToCheck(variant)[loops'[l].chain]
    /\ (\E i \in 1..Len(out'.ev) : out'.ev[i].type = "found")
          => \E l \in LoopIds : loops[l].pc \in {"balance", "rate"}

\* C32: for each chain of a sweep for which an address was derived, the
\* progress event is emitted before the balance resolution of that chain
\* starts (the step that starts the resolution has broadcast it), and a
\* found event is emitted only by a step that resumes a loop from a
\* resolution that has returned.
C32_ProgressBeforeResolution == [][ProgressResolveFound]_vars


\* The lengths a chain's provider list has in the program, within the bound.
ConfiguredLengths(v, c) ==
    IF v = 2 THEN {Len(apiConfig2(c))} \cap (1..MaxProviders)
             ELSE {Len(<<ProviderName(c)>>)}

C34_RefreshIsAtomic ==
    [][(uPc # "listening" /\ exchangeRateCache' # exchangeRateCache)
        => exchangeRateCache' =
              IF uResp'.kind = "ok" THEN Merged(exchangeRateCache, uResp'.usd)
                                    ELSE FallbackRates]_vars

\* A refresh has written all five entries in one step.
C34_Witness ==
    /\ uPc = "listening"
    /\ uResp.kind = "ok"
    /\ \A c \in RateKeys : uResp.usd[c] = MaxRate /\ exchangeRateCache[c] = MaxRate


\* C35: under any sequence of start, pause and stop requests the scan-state
\* flags encode Idle, Running or Paused: paused without running is never
\* reached.
C35_FlagsEncodeThreeStates ==
    isPaused => Running


\* C36: every balance the code holds and reports is the exact integer the
\* provider supplied, also above 2^53, for native and token balances on
\* every chain.
C36_ExactBalances ==
    pPc = "decoded" => pOut = pAmount


\* C37: in the browser client, across any sequence of start clicks, stop
\* clicks and stream errors, at most one event-stream connection is open at
\* a time (the one the variable holds), and after a stop click or a stream
\* error none is open until the next start click.
C37_SingleEventSource ==
    /\ Cardinality(esOpen) <= 1
    /\ esOpen \subseteq {eventSource}
    /\ esLast \in {"stop", "error"} => esOpen = {}

\* A second start click has replaced the first stream: the first is closed
\* and the second is open.
C37_Witness ==
    /\ esLast = "start"
    /\ esCount > 1
    /\ esOpen = {esCount}
    /\ esShown > 0

============================================================================
